---- MODULE Spec2Model ----
(***************************************************************************)
(* The NFT staking contract of sputnik-dao-contract (sputnik-nft-staking): *)
(* vote-weight registry, ledger, delegation engine with its cooldown, and  *)
(* the two-phase withdrawal (optimistic debit, asynchronous transfer,      *)
(* completion callback with compensating credit).                          *)
(*                                                                         *)
(* lib.rs is translated entry point by entry point.  The internal_*        *)
(* helpers it calls live in storage_impl.rs / user.rs, which are not among *)
(* the sources; they are modelled from the design document, reconciled     *)
(* with the calls and assertions of the tests (tests::test_basics and      *)
(* test_create_dao_and_use_nft).                                           *)
(***************************************************************************)
EXTENDS Integers, FiniteSets, Sequences, TLC

(* ------------------------------ bounds -------------------------------- *)
MaxTime == 1          \* block timestamps 0..MaxTime
MaxPeriod == 1        \* unstake_period is 0 or MaxPeriod
MaxAmount == 1        \* amount arguments 0..MaxAmount
MaxStake == 1         \* deposits stop when the total supply reaches this
MaxDelegated == 1     \* cap of the amounts one account has delegated
MaxWithdrawals == 1   \* withdrawals that pass phase 1 in one behaviour
MaxInFlight == 2      \* the same, where withdrawals are interleaved
MaxTally == 2         \* the governance tally is followed within -MaxTally..MaxTally

(* ----------------------------- universe ------------------------------- *)
OwnerId == "dao"
CurrentAccountId == "staking"
Users == {"alice", "bob"}

\* Strings used as token ids, registry keys and NFT contract accounts.
TokenIds == {"nft1", "NFT_6"}
\* AccountId::try_from accepts only lower-case account ids.
ValidAccountIds == {"nft1"}
Weights == {0, 2}
NoWeight == -1
Never == -1

Successful == "Successful"
Failed == "Failed"
PromiseResults == {Successful, Failed}

\* The withdrawals that pass phase 1, numbered in the order of issue.
WithdrawalIds == 1..MaxInFlight

VARIABLES
    token_ids_with_vote_weights,  \* registry: token id -> weight or NoWeight
    users,                        \* account -> user record
    total_amount,                 \* token id -> total staked
    unstake_period,               \* cooldown duration
    now,                          \* env::block_timestamp()
    withdrawals,                  \* promise chains of withdraw in flight
    issued,                       \* withdrawals that passed phase 1 so far
    undelegated_at,               \* account -> time of its last undelegate
    last,                         \* the last call and its outcome
    deposited,                    \* account -> token id -> units deposited
    finalized,                    \* account -> token id -> units transferred out
    tally,                        \* target -> weighted amount the governance
                                  \* contract was sent: delegated less undelegated
    resolution                    \* withdrawal in order of issue -> "none",
                                  \* "pending", "finalized" or "rolled_back"

vars == <<token_ids_with_vote_weights, users, total_amount, unstake_period,
          now, withdrawals, issued, undelegated_at, last, deposited, finalized,
          tally, resolution>>

(* ------------------------------ helpers ------------------------------- *)
RECURSIVE SumOver(_, _)
SumOver(S, f) ==
    IF S = {} THEN 0
    ELSE LET x == CHOOSE y \in S : TRUE IN f[x] + SumOver(S \ {x}, f)

Max(a, b) == IF a >= b THEN a ELSE b

DelegationKeys == TokenIds \X Users

NewUser ==
    [exists |-> FALSE,
     vote_amounts |-> [t \in TokenIds |-> 0],
     delegated_amounts |-> [k \in DelegationKeys |-> 0],
     next_action_timestamp |-> 0]

\* .get(&token_id).unwrap_or(U128(0)).0
weight_of(reg, token_id) ==
    IF reg[token_id] = NoWeight THEN 0 ELSE reg[token_id]

(* ------------------------------- views -------------------------------- *)
nft_total_supply_of(tot) == SumOver(TokenIds, tot)

\* Mutant: the weights are left out of the sum.
total_voting_power_of_unweighted(tot, reg) == SumOver(TokenIds, tot)

total_voting_power_of(tot, reg) ==
    SumOver(TokenIds, [t \in TokenIds |-> tot[t] * weight_of(reg, t)])

nft_balance_of_in(us, account_id) ==
    SumOver(TokenIds, us[account_id].vote_amounts)

nft_total_supply == nft_total_supply_of(total_amount)
total_voting_power ==
    total_voting_power_of(total_amount, token_ids_with_vote_weights)
nft_balance_of(account_id) == nft_balance_of_in(users, account_id)

(* --------------------- ledger and delegation engine ------------------- *)
\* Ledger.deposit / credit_rollback: credits the account entry and the
\* global total, creating the account record if absent.
internal_deposit_users(us, sender_id, token_id, amount) ==
    [us EXCEPT ![sender_id].exists = TRUE,
               ![sender_id].vote_amounts[token_id] = @ + amount]

\* Mutant: the credit misses the global total.
internal_deposit_total_skipped(tot, token_id, amount) == tot

internal_deposit_total(tot, token_id, amount) ==
    [tot EXCEPT ![token_id] = @ + amount]

\* Ledger.debit with the cooldown of the account record: "" when the debit
\* is allowed, the error otherwise.
internal_withdraw_error(us, t, sender_id, token_id, amount) ==
    IF us[sender_id].vote_amounts[token_id] < amount THEN "InsufficientBalance"
    ELSE IF t < us[sender_id].next_action_timestamp THEN "CooldownActive"
    ELSE ""

internal_withdraw_users(us, sender_id, token_id, amount) ==
    [us EXCEPT ![sender_id].vote_amounts[token_id] = @ - amount]

internal_withdraw_total(tot, token_id, amount) ==
    [tot EXCEPT ![token_id] = @ - amount]

\* Mutant: delegate does not look at the cooldown.
internal_delegate_error_ungated(us, t, sender_id) == ""

\* Delegation engine: delegate is allowed only when the cooldown elapsed.
internal_delegate_error(us, t, sender_id) ==
    IF t < us[sender_id].next_action_timestamp THEN "CooldownActive" ELSE ""

\* Mutant: delegate re-arms the timer as undelegate does.
internal_delegate_users_rearmed(us, sender_id, delegate_id, token_id, amount) ==
    [us EXCEPT ![sender_id].delegated_amounts[<<token_id, delegate_id>>] =
                   @ + amount,
               ![sender_id].next_action_timestamp = now + unstake_period]

\* delegate records the amount; the test suite has an undelegate at the
\* same timestamp succeed, so the timer is not re-armed here.
internal_delegate_users(us, sender_id, delegate_id, token_id, amount) ==
    [us EXCEPT ![sender_id].delegated_amounts[<<token_id, delegate_id>>] =
                   @ + amount]

internal_undelegate_error(us, t, sender_id) ==
    IF t < us[sender_id].next_action_timestamp THEN "CooldownActive" ELSE ""

\* Mutant: undelegate leaves the timer alone.
internal_undelegate_users_unarmed(us, t, period, sender_id, delegate_id, token_id, amount) ==
    [us EXCEPT ![sender_id].delegated_amounts[<<token_id, delegate_id>>] =
                   Max(@ - amount, 0)]

\* undelegate floors the entry at zero and re-arms the timer.
internal_undelegate_users(us, t, period, sender_id, delegate_id, token_id, amount) ==
    [us EXCEPT ![sender_id].delegated_amounts[<<token_id, delegate_id>>] =
                   Max(@ - amount, 0),
               ![sender_id].next_action_timestamp = t + period]

(* -------------------------------- Init -------------------------------- *)
\* The promise a call creates on the governance contract: the method, the
\* contract it is addressed to and its arguments.  NoForward: no promise.
NoForward ==
    [method |-> "none", receiver_id |-> "none", account_id |-> "none",
     amount |-> 0]

\* ext_sputnik::delegate(account_id, amount, receiver_id, 0, GAS_FOR_DELEGATE)
ext_sputnik_delegate(account_id, amount, receiver_id) ==
    [method |-> "delegate", receiver_id |-> receiver_id,
     account_id |-> account_id, amount |-> amount]

\* ext_sputnik::undelegate(account_id, amount, receiver_id, 0,
\* GAS_FOR_UNDELEGATE)
ext_sputnik_undelegate(account_id, amount, receiver_id) ==
    [method |-> "undelegate", receiver_id |-> receiver_id,
     account_id |-> account_id, amount |-> amount]

\* The record of a call: its arguments, its outcome ("ok" or the error), the
\* promise created on the governance contract, and for an undelegate whether
\* it directly follows a successful delegate of the same arguments.

Call(op, caller, account, token, amount, result, forwarded) ==
    [op |-> op, caller |-> caller, account |-> account, token |-> token,
     amount |-> amount, result |-> result, forwarded |-> forwarded,
     after_delegate |-> /\ op = "undelegate" /\ last.op = "delegate"
                        /\ last.result = "ok" /\ last.caller = caller
                        /\ last.account = account /\ last.token = token
                        /\ last.amount = amount]

\* Contract::new: the registry and the period are constructor arguments.
Init ==
    /\ token_ids_with_vote_weights =
           [t \in TokenIds |-> IF t = "nft1" THEN 2 ELSE NoWeight]
    /\ users = [a \in Users |-> NewUser]
    /\ total_amount = [t \in TokenIds |-> 0]
    /\ unstake_period \in {0, MaxPeriod}
    /\ now = 0
    /\ withdrawals = <<>>
    /\ issued = 0
    /\ undelegated_at = [a \in Users |-> Never]
    /\ last = [op |-> "new", caller |-> OwnerId, account |-> OwnerId,
               token |-> "nft1", amount |-> 0, result |-> "ok",
               forwarded |-> NoForward, after_delegate |-> FALSE]
    /\ deposited = [a \in Users |-> [t \in TokenIds |-> 0]]
    /\ finalized = [a \in Users |-> [t \in TokenIds |-> 0]]
    /\ tally = [a \in Users |-> 0]
    /\ resolution = [id \in WithdrawalIds |-> "none"]

(* ------------------------------ actions ------------------------------- *)
\* Mutant: the registry is replaced by the supplied map.
Register_replace(reg, m) ==
    [t \in TokenIds |-> IF t \in DOMAIN m THEN m[t] ELSE NoWeight]

Register(reg, m) ==
    [t \in TokenIds |-> IF t \in DOMAIN m THEN m[t] ELSE reg[t]]

\* Mutant: the caller is not compared with the owner.
adopt_new_nfts_unguarded(sender_id, token_ids_and_weights) ==
    /\ token_ids_with_vote_weights' =
           Register(token_ids_with_vote_weights, token_ids_and_weights)
    /\ last' = Call("adopt_new_nfts", sender_id, sender_id, "nft1", 0,
                    "ok", NoForward)
    /\ UNCHANGED <<users, total_amount, unstake_period, now, withdrawals,
                   issued, undelegated_at>>

\* adopt_new_nfts: only the owner; extend() inserts or overwrites each entry.
adopt_new_nfts(sender_id, token_ids_and_weights) ==
    IF sender_id # OwnerId
    THEN /\ last' = Call("adopt_new_nfts", sender_id, sender_id, "nft1", 0,
                         "ERR_INVALID_APPROVER", NoForward)
         /\ UNCHANGED <<token_ids_with_vote_weights, users, total_amount,
                        unstake_period, now, withdrawals, issued, undelegated_at>>
    ELSE /\ token_ids_with_vote_weights' =
                Register(token_ids_with_vote_weights, token_ids_and_weights)
         /\ last' = Call("adopt_new_nfts", sender_id, sender_id, "nft1", 0,
                         "ok", NoForward)
         /\ UNCHANGED <<users, total_amount, unstake_period, now, withdrawals,
                        issued, undelegated_at>>

\* The registry lookup of nft_on_transfer is by the calling account.
RegistryGet(reg, key) ==
    IF key \in TokenIds THEN reg[key] ELSE NoWeight

\* Mutant: the message is not looked at.
nft_on_transfer_any_message(predecessor, sender_id, token_id, msg) ==
    LET err == IF RegistryGet(token_ids_with_vote_weights, predecessor) = NoWeight
               THEN "ERR_INVALID_TOKEN"
               ELSE ""
    IN  IF err # ""
        THEN /\ last' = Call("nft_on_transfer", predecessor, sender_id,
                             token_id, 1, err, NoForward)
             /\ UNCHANGED <<token_ids_with_vote_weights, users, total_amount,
                            unstake_period, now, withdrawals, issued, undelegated_at>>
        ELSE /\ users' = internal_deposit_users(users, sender_id, token_id, 1)
             /\ total_amount' = internal_deposit_total(total_amount, token_id, 1)
             /\ last' = Call("nft_on_transfer", predecessor, sender_id,
                             token_id, 1, "ok", NoForward)
             /\ UNCHANGED <<token_ids_with_vote_weights, unstake_period, now,
                            withdrawals, issued, undelegated_at>>

\* nft_on_transfer: the caller must be a registered token, the message
\* empty; then one unit is credited under token_id.
nft_on_transfer(predecessor, sender_id, token_id, msg) ==
    LET err == IF RegistryGet(token_ids_with_vote_weights, predecessor) = NoWeight
               THEN "ERR_INVALID_TOKEN"
               ELSE IF msg # "" THEN "ERR_INVALID_MESSAGE"
               ELSE ""
    IN  IF err # ""
        THEN /\ last' = Call("nft_on_transfer", predecessor, sender_id,
                             token_id, 1, err, NoForward)
             /\ UNCHANGED <<token_ids_with_vote_weights, users, total_amount,
                            unstake_period, now, withdrawals, issued, undelegated_at>>
        ELSE /\ users' = internal_deposit_users(users, sender_id, token_id, 1)
             /\ total_amount' = internal_deposit_total(total_amount, token_id, 1)
             /\ last' = Call("nft_on_transfer", predecessor, sender_id,
                             token_id, 1, "ok", NoForward)
             /\ UNCHANGED <<token_ids_with_vote_weights, unstake_period, now,
                            withdrawals, issued, undelegated_at>>

\* Mutant: delegate takes the delegated amount out of the global total.
delegate_debits_total(sender_id, account_id, token_id, amount) ==
    LET err == internal_delegate_error(users, now, sender_id)
        fwd == ext_sputnik_delegate(account_id,
                   amount * weight_of(token_ids_with_vote_weights, token_id),
                   OwnerId)
    IN  IF err # ""
        THEN /\ last' = Call("delegate", sender_id, account_id, token_id,
                             amount, err, NoForward)
             /\ UNCHANGED <<token_ids_with_vote_weights, users, total_amount,
                            unstake_period, now, withdrawals, issued, undelegated_at>>
        ELSE /\ users' = internal_delegate_users(users, sender_id, account_id,
                                                 token_id, amount)
             /\ total_amount' = internal_withdraw_total(total_amount, token_id,
                                                        amount)
             /\ last' = Call("delegate", sender_id, account_id, token_id,
                             amount, "ok", fwd)
             /\ UNCHANGED <<token_ids_with_vote_weights, unstake_period, now,
                            withdrawals, issued, undelegated_at>>

\* Mutant: delegate forwards the bare amount, not the weighted one.
delegate_unweighted(sender_id, account_id, token_id, amount) ==
    LET err == internal_delegate_error(users, now, sender_id)
        fwd == ext_sputnik_delegate(account_id, amount, OwnerId)
    IN  IF err # ""
        THEN /\ last' = Call("delegate", sender_id, account_id, token_id,
                             amount, err, NoForward)
             /\ UNCHANGED <<token_ids_with_vote_weights, users, total_amount,
                            unstake_period, now, withdrawals, issued, undelegated_at>>
        ELSE /\ users' = internal_delegate_users(users, sender_id, account_id,
                                                 token_id, amount)
             /\ last' = Call("delegate", sender_id, account_id, token_id,
                             amount, "ok", fwd)
             /\ UNCHANGED <<token_ids_with_vote_weights, total_amount,
                            unstake_period, now, withdrawals, issued, undelegated_at>>

\* delegate: internal_delegate, then ext_sputnik::delegate with the weighted
\* amount.
delegate(sender_id, account_id, token_id, amount) ==
    LET err == internal_delegate_error(users, now, sender_id)
        fwd == ext_sputnik_delegate(account_id,
                   amount * weight_of(token_ids_with_vote_weights, token_id),
                   OwnerId)
    IN  IF err # ""
        THEN /\ last' = Call("delegate", sender_id, account_id, token_id,
                             amount, err, NoForward)
             /\ UNCHANGED <<token_ids_with_vote_weights, users, total_amount,
                            unstake_period, now, withdrawals, issued, undelegated_at>>
        ELSE /\ users' = internal_delegate_users(users, sender_id, account_id,
                                                 token_id, amount)
             /\ last' = Call("delegate", sender_id, account_id, token_id,
                             amount, "ok", fwd)
             /\ UNCHANGED <<token_ids_with_vote_weights, total_amount,
                            unstake_period, now, withdrawals, issued, undelegated_at>>

\* Mutant: undelegate forwards a delegate message.
undelegate_forwards_delegate(sender_id, account_id, token_id, amount) ==
    LET err == internal_undelegate_error(users, now, sender_id)
        fwd == ext_sputnik_delegate(account_id,
                   amount * weight_of(token_ids_with_vote_weights, token_id),
                   OwnerId)
    IN  IF err # ""
        THEN /\ last' = Call("undelegate", sender_id, account_id, token_id,
                             amount, err, NoForward)
             /\ UNCHANGED <<token_ids_with_vote_weights, users, total_amount,
                            unstake_period, now, withdrawals, issued, undelegated_at>>
        ELSE /\ users' = internal_undelegate_users(users, now, unstake_period,
                                                   sender_id, account_id,
                                                   token_id, amount)
             /\ undelegated_at' = [undelegated_at EXCEPT ![sender_id] = now]
             /\ last' = Call("undelegate", sender_id, account_id, token_id,
                             amount, "ok", fwd)
             /\ UNCHANGED <<token_ids_with_vote_weights, total_amount,
                            unstake_period, now, withdrawals, issued>>

\* undelegate: internal_undelegate, then ext_sputnik::undelegate with the
\* weighted amount.
undelegate(sender_id, account_id, token_id, amount) ==
    LET err == internal_undelegate_error(users, now, sender_id)
        fwd == ext_sputnik_undelegate(account_id,
                   amount * weight_of(token_ids_with_vote_weights, token_id),
                   OwnerId)
    IN  IF err # ""
        THEN /\ last' = Call("undelegate", sender_id, account_id, token_id,
                             amount, err, NoForward)
             /\ UNCHANGED <<token_ids_with_vote_weights, users, total_amount,
                            unstake_period, now, withdrawals, issued, undelegated_at>>
        ELSE /\ users' = internal_undelegate_users(users, now, unstake_period,
                                                   sender_id, account_id,
                                                   token_id, amount)
             /\ undelegated_at' = [undelegated_at EXCEPT ![sender_id] = now]
             /\ last' = Call("undelegate", sender_id, account_id, token_id,
                             amount, "ok", fwd)
             /\ UNCHANGED <<token_ids_with_vote_weights, total_amount,
                            unstake_period, now, withdrawals, issued>>

Withdrawal(sender_id, token_id, amount, before) ==
    [sender_id |-> sender_id, token_id |-> token_id, amount |-> amount,
     before |-> before]

\* Mutant: the result of internal_withdraw is ignored, the debit and the
\* transfer go ahead.
withdraw_unchecked(sender_id, token_id, amount) ==
    /\ token_id \in ValidAccountIds
    /\ users' = internal_withdraw_users(users, sender_id, token_id, amount)
    /\ total_amount' = internal_withdraw_total(total_amount, token_id, amount)
    /\ withdrawals' = Append(withdrawals,
           Withdrawal(sender_id, token_id, amount,
                      users[sender_id].vote_amounts[token_id]))
    /\ issued' = issued + 1
    /\ last' = Call("withdraw", sender_id, sender_id, token_id, amount, "ok",
                    NoForward)
    /\ UNCHANGED <<token_ids_with_vote_weights, unstake_period, now,
                   undelegated_at>>

\* Mutant: the transfer is requested without the debit of the ledger.
withdraw_without_debit(sender_id, token_id, amount) ==
    /\ internal_withdraw_error(users, now, sender_id, token_id, amount) = ""
    /\ token_id \in ValidAccountIds
    /\ withdrawals' = Append(withdrawals,
           Withdrawal(sender_id, token_id, amount,
                      users[sender_id].vote_amounts[token_id]))
    /\ issued' = issued + 1
    /\ last' = Call("withdraw", sender_id, sender_id, token_id, amount, "ok",
                    NoForward)
    /\ UNCHANGED <<token_ids_with_vote_weights, users, total_amount,
                   unstake_period, now, undelegated_at>>

\* Mutant: a withdraw under a running cooldown goes ahead.
withdraw_ungated(sender_id, token_id, amount) ==
    /\ users[sender_id].vote_amounts[token_id] >= amount
    /\ token_id \in ValidAccountIds
    /\ users' = internal_withdraw_users(users, sender_id, token_id, amount)
    /\ total_amount' = internal_withdraw_total(total_amount, token_id, amount)
    /\ withdrawals' = Append(withdrawals,
           Withdrawal(sender_id, token_id, amount,
                      users[sender_id].vote_amounts[token_id]))
    /\ issued' = issued + 1
    /\ last' = Call("withdraw", sender_id, sender_id, token_id, amount, "ok",
                    NoForward)
    /\ UNCHANGED <<token_ids_with_vote_weights, unstake_period, now,
                   undelegated_at>>

\* Mutant: the transfer is requested with no callback attached to it.
withdraw_detached(sender_id, token_id, amount) ==
    LET err0 == internal_withdraw_error(users, now, sender_id, token_id, amount)
        err == IF err0 # "" THEN err0
               ELSE IF token_id \notin ValidAccountIds THEN "ERR_INVALID_ACCOUNT_ID"
               ELSE ""
    IN  IF err # ""
        THEN /\ last' = Call("withdraw", sender_id, sender_id, token_id,
                             amount, err, NoForward)
             /\ UNCHANGED <<token_ids_with_vote_weights, users, total_amount,
                            unstake_period, now, withdrawals, issued, undelegated_at>>
        ELSE /\ users' = internal_withdraw_users(users, sender_id, token_id, amount)
             /\ total_amount' = internal_withdraw_total(total_amount, token_id, amount)
             /\ withdrawals' = withdrawals
             /\ issued' = issued + 1
             /\ last' = Call("withdraw", sender_id, sender_id, token_id,
                             amount, "ok", NoForward)
             /\ UNCHANGED <<token_ids_with_vote_weights, unstake_period, now,
                   undelegated_at>>

\* withdraw: internal_withdraw, then nft_transfer on the contract named by
\* token_id, then the callback.  AccountId::try_from(..).unwrap() panics on a
\* token id that is no account id, which aborts the call.
withdraw(sender_id, token_id, amount) ==
    LET err0 == internal_withdraw_error(users, now, sender_id, token_id, amount)
        err == IF err0 # "" THEN err0
               ELSE IF token_id \notin ValidAccountIds THEN "ERR_INVALID_ACCOUNT_ID"
               ELSE ""
    IN  IF err # ""
        THEN /\ last' = Call("withdraw", sender_id, sender_id, token_id,
                             amount, err, NoForward)
             /\ UNCHANGED <<token_ids_with_vote_weights, users, total_amount,
                            unstake_period, now, withdrawals, issued, undelegated_at>>
        ELSE /\ users' = internal_withdraw_users(users, sender_id, token_id, amount)
             /\ total_amount' = internal_withdraw_total(total_amount, token_id, amount)
             /\ withdrawals' = Append(withdrawals,
                    Withdrawal(sender_id, token_id, amount,
                               users[sender_id].vote_amounts[token_id]))
             /\ issued' = issued + 1
             /\ last' = Call("withdraw", sender_id, sender_id, token_id,
                             amount, "ok", NoForward)
             /\ UNCHANGED <<token_ids_with_vote_weights, unstake_period, now,
                   undelegated_at>>

\* Mutant: a failed transfer is treated like a successful one.
callback_outcome_no_rollback(predecessor, results) ==
    IF predecessor # CurrentAccountId THEN "ERR_PRIVATE"
    ELSE IF Len(results) # 1 THEN "ERR_CALLBACK_POST_WITHDRAW_INVALID"
    ELSE "ok"

\* Mutant: the credit is applied whatever the result.
callback_outcome_always_credit(predecessor, results) ==
    IF predecessor # CurrentAccountId THEN "ERR_PRIVATE"
    ELSE IF Len(results) # 1 THEN "ERR_CALLBACK_POST_WITHDRAW_INVALID"
    ELSE "credit"

\* Mutant: the result count is not asserted.
callback_outcome_no_count(predecessor, results) ==
    IF predecessor # CurrentAccountId THEN "ERR_PRIVATE"
    ELSE IF Len(results) >= 1 /\ results[1] = Failed THEN "credit"
    ELSE "ok"

\* Mutant: the method is not private.
callback_outcome_public(predecessor, results) ==
    IF Len(results) # 1 THEN "ERR_CALLBACK_POST_WITHDRAW_INVALID"
    ELSE IF results[1] = Failed THEN "credit"
    ELSE "ok"

\* The outcome of exchange_callback_post_withdraw: #[private], then the
\* result count, then the match on the single result.
callback_outcome(predecessor, results) ==
    IF predecessor # CurrentAccountId THEN "ERR_PRIVATE"
    ELSE IF Len(results) # 1 THEN "ERR_CALLBACK_POST_WITHDRAW_INVALID"
    ELSE IF results[1] = Failed THEN "credit"
    ELSE "ok"

\* exchange_callback_post_withdraw, the ledger part.
exchange_callback_post_withdraw(predecessor, sender_id, token_id, amount, results) ==
    LET out == callback_outcome(predecessor, results)
    IN  /\ IF out = "credit"
           THEN /\ users' = internal_deposit_users(users, sender_id, token_id, amount)
                /\ total_amount' = internal_deposit_total(total_amount, token_id, amount)
           ELSE UNCHANGED <<users, total_amount>>
        /\ last' = Call("exchange_callback_post_withdraw", predecessor,
                        sender_id, token_id, amount, out, NoForward)
        /\ UNCHANGED <<token_ids_with_vote_weights, unstake_period, now, issued, undelegated_at>>

RemoveAt(seq, i) == SubSeq(seq, 1, i - 1) \o SubSeq(seq, i + 1, Len(seq))

\* The runtime delivers the single result of the transfer of the i-th
\* withdrawal in flight; its promise chain is then complete.
CallbackDeliver(i, result) ==
    /\ exchange_callback_post_withdraw(CurrentAccountId,
           withdrawals[i].sender_id, withdrawals[i].token_id,
           withdrawals[i].amount, <<result>>)
    /\ withdrawals' = RemoveAt(withdrawals, i)

\* A direct call of the callback method: by any account, or by the contract
\* account itself outside a promise chain (no single result to read).
CallbackDirect(predecessor, sender_id, token_id, amount, results) ==
    /\ predecessor = CurrentAccountId => Len(results) # 1
    /\ exchange_callback_post_withdraw(predecessor, sender_id, token_id,
                                       amount, results)
    /\ UNCHANGED withdrawals

\* The block timestamp advances.  The contract reads it only in the cooldown
\* comparison, so the clock is stepped only while some cooldown is pending.
Tick ==
    /\ now < MaxTime
    /\ \E a \in Users : now < users[a].next_action_timestamp
    /\ now' = now + 1
    /\ last' = Call("tick", OwnerId, OwnerId, "nft1", 0, "ok", NoForward)
    /\ UNCHANGED <<token_ids_with_vote_weights, users, total_amount,
                   unstake_period, withdrawals, issued, undelegated_at>>

Amounts == 0..MaxAmount
Messages == {"", "vote"}
NftCallers == ValidAccountIds \cup {"alice"}
\* Direct calls of the callback method: <<caller, results>>.
DirectCalls ==
    {<<"alice", <<Failed>>>>, <<"alice", <<>>>>,
     <<CurrentAccountId, <<>>>>,
     <<CurrentAccountId, <<Failed, Failed>>>>,
     <<CurrentAccountId, <<Successful, Failed>>>>}

DelegatedTotal(u) == SumOver(DelegationKeys, users[u].delegated_amounts)

\* The history of deposits and of completed transfers is kept by the
\* specification of the interleaved withdrawals only, the sums sent to the
\* governance contract by the specification of the tally only, the fate of
\* each withdrawal by the specification of the resolution only.
NoHistory == UNCHANGED <<deposited, finalized, tally, resolution>>

\* One step of the contract: any entry point, called with inputs drawn from
\* the given sets; the guards in front of the calls are the model's bounds.
NextOf(AdoptInputs, Stakers, DepositTokens, WithdrawAmounts, Delegators, Delegates, DelegateTokens, DelegateAmounts) ==
    \/ Tick /\ NoHistory
    \/ \E c \in {OwnerId, "alice"}, m \in AdoptInputs :
          adopt_new_nfts(c, m) /\ NoHistory
    \/ \E p \in NftCallers, s \in Stakers, t \in DepositTokens, msg \in Messages :
          /\ nft_total_supply < MaxStake
          /\ nft_on_transfer(p, s, t, msg)
          /\ NoHistory
    \/ \E s \in Delegators, d \in Delegates, t \in DelegateTokens,
          a \in DelegateAmounts :
          /\ DelegatedTotal(s) + a <= MaxDelegated
          /\ delegate(s, d, t, a)
          /\ NoHistory
    \/ \E s \in Delegators, d \in Delegates, t \in DelegateTokens,
          a \in DelegateAmounts :
          undelegate(s, d, t, a) /\ NoHistory
    \/ \E s \in Stakers, t \in TokenIds, a \in WithdrawAmounts :
          /\ issued < MaxWithdrawals
          /\ withdraw(s, t, a)
          /\ NoHistory
    \/ \E i \in DOMAIN withdrawals, r \in PromiseResults :
          CallbackDeliver(i, r) /\ NoHistory
    \/ \E c \in DirectCalls :
          CallbackDirect(c[1], "alice", "nft1", 1, c[2]) /\ NoHistory

\* The ledger and the withdrawal choreography with both stakers and every
\* amount; the delegation engine with one delegation of amount 0, which
\* moves no voting power but arms the cooldown.
Next ==
    NextOf({[t \in {"NFT_6"} |-> 0]}, Users, {"nft1"}, Amounts,
           {"alice"}, {"bob"}, {"nft1"}, {0})

Spec == Init /\ [][Next]_vars

\* The delegation engine with every delegate, token and amount for one
\* delegator; the ledger with that account as the one staker.
NextDelegation ==
    NextOf({[t \in {"nft1"} |-> 0]}, {"alice"}, {"nft1"}, {1},
           {"alice"}, Users, TokenIds, Amounts)

SpecDelegation == Init /\ [][NextDelegation]_vars

\* The maps adopt_new_nfts is called with: a new token, a new weight for a
\* registered token, and several tokens at once.
Registrations ==
    {[t \in {"NFT_6"} |-> 2], [t \in {"NFT_6"} |-> 0], [t \in {"nft1"} |-> 0],
     [t \in TokenIds |-> 2]}

\* The registry with every registration, deposits under every token id by
\* both stakers, and the views; one withdrawal amount, one delegation of
\* amount 0.
NextRegistry ==
    NextOf(Registrations, Users, TokenIds, {1},
           {"alice"}, {"bob"}, {"nft1"}, {0})

SpecRegistry == Init /\ [][NextRegistry]_vars

\* A deposit that was accepted counts as deposited.
Deposited(sender_id, token_id) ==
    deposited' = IF last'.result = "ok"
                 THEN [deposited EXCEPT ![sender_id][token_id] = @ + 1]
                 ELSE deposited

\* A withdrawal whose transfer succeeded counts as transferred out.
Finalized(w, result) ==
    finalized' = IF result = Successful
                 THEN [finalized EXCEPT ![w.sender_id][w.token_id] = @ + w.amount]
                 ELSE finalized

\* The withdrawal choreography interleaved: up to MaxInFlight withdrawals of
\* one account, of every amount, with deposits of two accounts, completions
\* in any order, registrations, direct calls of the callback and the
\* cooldown in between; the deposits and the completed transfers are counted.
NextWithdrawals ==
    \/ Tick /\ NoHistory
    \/ \E c \in {OwnerId, "alice"} :
          adopt_new_nfts(c, [t \in {"NFT_6"} |-> 0]) /\ NoHistory
    \/ \E p \in NftCallers, s \in Users, msg \in Messages :
          /\ nft_total_supply < MaxStake
          /\ nft_on_transfer(p, s, "nft1", msg)
          /\ Deposited(s, "nft1")
          /\ UNCHANGED <<finalized, tally, resolution>>
    \/ /\ delegate("alice", "bob", "nft1", 0)
       /\ NoHistory
    \/ /\ undelegate("alice", "bob", "nft1", 0)
       /\ NoHistory
    \/ \E t \in TokenIds, a \in Amounts :
          /\ issued < MaxInFlight
          /\ withdraw("alice", t, a)
          /\ NoHistory
    \/ \E i \in DOMAIN withdrawals, r \in PromiseResults :
          /\ CallbackDeliver(i, r)
          /\ Finalized(withdrawals[i], r)
          /\ UNCHANGED <<deposited, tally, resolution>>
    \/ \E c \in DirectCalls :
          CallbackDirect(c[1], "alice", "nft1", 1, c[2]) /\ NoHistory

SpecWithdrawals == Init /\ [][NextWithdrawals]_vars

\* The governance contract adds what a delegate message carries to the
\* tally of the account it names and subtracts what an undelegate message
\* carries.
Tallied ==
    tally' =
        IF last'.forwarded.method = "delegate"
        THEN [tally EXCEPT ![last'.forwarded.account_id] =
                               @ + last'.forwarded.amount]
        ELSE IF last'.forwarded.method = "undelegate"
        THEN [tally EXCEPT ![last'.forwarded.account_id] =
                               @ - last'.forwarded.amount]
        ELSE tally

\* The registrations of the tally: the weight of the delegated token is
\* taken away and given back.
Reweightings == {[t \in {"nft1"} |-> 0], [t \in {"nft1"} |-> 2]}

\* The delegation engine with one sender, every target and amount, and the
\* token re-weighted in between; the ledger with one staker; what the
\* governance contract is sent is summed per target.
NextTally ==
    \/ Tick /\ NoHistory
    \/ \E c \in {OwnerId, "alice"}, m \in Reweightings :
          adopt_new_nfts(c, m) /\ NoHistory
    \/ \E p \in NftCallers, msg \in Messages :
          /\ nft_total_supply < MaxStake
          /\ nft_on_transfer(p, "alice", "nft1", msg)
          /\ NoHistory
    \/ \E d \in Users, a \in Amounts :
          /\ DelegatedTotal("alice") + a <= MaxDelegated
          /\ tally[d] < MaxTally
          /\ delegate("alice", d, "nft1", a)
          /\ Tallied
          /\ UNCHANGED <<deposited, finalized, resolution>>
    \/ \E d \in Users, a \in Amounts :
          /\ tally[d] > -MaxTally
          /\ undelegate("alice", d, "nft1", a)
          /\ Tallied
          /\ UNCHANGED <<deposited, finalized, resolution>>
    \/ /\ issued < MaxWithdrawals
       /\ withdraw("alice", "nft1", 1)
       /\ NoHistory
    \/ \E i \in DOMAIN withdrawals, r \in PromiseResults :
          CallbackDeliver(i, r) /\ NoHistory
    \/ \E c \in DirectCalls :
          CallbackDirect(c[1], "alice", "nft1", 1, c[2]) /\ NoHistory

SpecTally == Init /\ [][NextTally]_vars

\* withdraw appends to the withdrawals in flight and a completion removes
\* one without reordering, so the one issued as id stands after the pending
\* ones issued before it.
PositionOf(id) ==
    Cardinality({j \in WithdrawalIds : j < id /\ resolution[j] = "pending"}) + 1

\* A withdraw that passed phase 1 is pending under the next number.
Issued ==
    resolution' = IF issued' # issued
                  THEN [resolution EXCEPT ![issued'] = "pending"]
                  ELSE resolution

\* The match of the callback on the single result: the debit stands on
\* Successful, the amount is credited back on Failed.
Resolved(id, result) ==
    resolution' = [resolution EXCEPT ![id] =
                      IF result = Successful THEN "finalized" ELSE "rolled_back"]

\* The custody contract answers the transfer of withdrawal id and the
\* runtime runs the callback attached to it with that single result.
Resolve(id, result) ==
    /\ resolution[id] = "pending"
    /\ PositionOf(id) \in DOMAIN withdrawals
    /\ CallbackDeliver(PositionOf(id), result)
    /\ Resolved(id, result)
    /\ UNCHANGED <<deposited, finalized, tally>>

\* The withdrawal choreography with every withdrawal followed from its
\* issue to its completion: deposits, withdrawals of every amount by one
\* account, completions in any order and direct calls of the callback in
\* between.
NextResolution ==
    \/ \E p \in NftCallers, msg \in Messages :
          /\ nft_total_supply < MaxStake
          /\ nft_on_transfer(p, "alice", "nft1", msg)
          /\ NoHistory
    \/ \E t \in TokenIds, a \in Amounts :
          /\ issued < MaxInFlight
          /\ withdraw("alice", t, a)
          /\ Issued
          /\ UNCHANGED <<deposited, finalized, tally>>
    \/ \E id \in WithdrawalIds, r \in PromiseResults : Resolve(id, r)
    \/ \E c \in DirectCalls :
          CallbackDirect(c[1], "alice", "nft1", 1, c[2]) /\ NoHistory

\* The runtime runs the callback of every promise chain once the transfer
\* it waits for has a result, and the custody contract gives every transfer
\* one result.
Delivery == \A id \in WithdrawalIds : WF_vars(\E r \in PromiseResults : Resolve(id, r))

SpecResolution == Init /\ [][NextResolution]_vars /\ Delivery

(* ======================= properties of the ledger ====================== *)
StakedSum(token_id) ==
    SumOver(Users, [a \in Users |-> users[a].vote_amounts[token_id]])

\* C1 (conservation): in every reachable state, for every token, the staked
\* amounts of that token summed over all accounts equal the global total
\* recorded for the token.
C1_Conservation ==
    \A t \in TokenIds : StakedSum(t) = total_amount[t]

\* A rolled-back withdrawal has just completed, beside a second staker.
C1_Witness ==
    /\ last.op = "exchange_callback_post_withdraw"
    /\ last.result = "credit"
    /\ total_amount["nft1"] = 2
    /\ \A a \in Users : users[a].vote_amounts["nft1"] = 1

\* C2 as stated: when the transfer of a withdrawal fails, the callback
\* leaves the account's staked amount of the token at exactly the amount b
\* it had when the withdrawal was initiated.
C2_RestoredToInitial ==
    [][\A i \in DOMAIN withdrawals :
          CallbackDeliver(i, Failed) =>
              users'[withdrawals[i].sender_id].vote_amounts[withdrawals[i].token_id]
                  = withdrawals[i].before]_vars

\* C2 as amended: the callback of a failed transfer credits exactly the
\* withdrawn amount a to the account's staked amount and to the global
\* total of the token, and changes no other staked amount; the staked
\* amount is b again exactly when it still was b - a before the callback.
C2_CreditsExactlyAmount ==
    [][\A i \in DOMAIN withdrawals :
          CallbackDeliver(i, Failed) =>
              LET w == withdrawals[i]
                  s == w.sender_id
                  t == w.token_id
              IN  /\ users'[s].vote_amounts[t] = users[s].vote_amounts[t] + w.amount
                  /\ total_amount'[t] = total_amount[t] + w.amount
                  /\ \A a \in Users, k \in TokenIds :
                        <<a, k>> # <<s, t>> =>
                            users'[a].vote_amounts[k] = users[a].vote_amounts[k]
                  /\ \A k \in TokenIds \ {t} : total_amount'[k] = total_amount[k]
                  /\ (users'[s].vote_amounts[t] = w.before)
                        <=> (users[s].vote_amounts[t] = w.before - w.amount)]_vars

\* A failed withdrawal of one unit was rolled back and the account holds
\* its token again.
C2_Witness ==
    /\ last.op = "exchange_callback_post_withdraw"
    /\ last.caller = CurrentAccountId
    /\ last.result = "credit"
    /\ last.amount = 1
    /\ users[last.account].vote_amounts[last.token] = 1

CoreUnchanged ==
    UNCHANGED <<token_ids_with_vote_weights, users, total_amount,
                unstake_period, now, withdrawals, issued, undelegated_at>>

\* C3: a withdraw of more than the account has staked of the token fails
\* with InsufficientBalance: no transfer is requested, no callback becomes
\* pending, and account records, totals, registry and cooldown are unchanged.
C3_InsufficientBalance ==
    [][(/\ last'.op = "withdraw"
        /\ users[last'.caller].vote_amounts[last'.token] < last'.amount)
       => /\ last'.result = "InsufficientBalance"
          /\ CoreUnchanged]_vars

\* A withdraw of one unit by an account that holds none was rejected.
C3_Witness ==
    /\ last.op = "withdraw"
    /\ last.result = "InsufficientBalance"
    /\ last.amount = 1
    /\ users[last.caller].vote_amounts[last.token] = 0
    /\ withdrawals = <<>>

\* C4 (optimistic debit): a successful withdraw of amount a of token t lowers
\* the account's staked amount of t, its balance, the total supply and the
\* global total of t by a, and the total voting power by a * weight_of(t),
\* and puts the transfer in flight; while it is in flight, a staked amount
\* is raised only by a deposit or by a completion callback.
C4_OptimisticDebit ==
    [][/\ (last'.op = "withdraw" /\ last'.result = "ok") =>
              LET s == last'.caller
                  t == last'.token
                  a == last'.amount
              IN  /\ users'[s].vote_amounts[t] = users[s].vote_amounts[t] - a
                  /\ nft_balance_of_in(users', s) = nft_balance_of_in(users, s) - a
                  /\ nft_total_supply_of(total_amount')
                        = nft_total_supply_of(total_amount) - a
                  /\ total_amount'[t] = total_amount[t] - a
                  /\ total_voting_power_of(total_amount', token_ids_with_vote_weights')
                        = total_voting_power_of(total_amount, token_ids_with_vote_weights)
                          - a * weight_of(token_ids_with_vote_weights, t)
                  /\ withdrawals' = Append(withdrawals,
                        Withdrawal(s, t, a, users[s].vote_amounts[t]))
       /\ (\E a \in Users, t \in TokenIds :
              users'[a].vote_amounts[t] > users[a].vote_amounts[t])
              => last'.op \in {"nft_on_transfer", "exchange_callback_post_withdraw"}
      ]_vars

\* A unit of a token of weight 2 was withdrawn and is in flight.
C4_Witness ==
    /\ last.op = "withdraw"
    /\ last.result = "ok"
    /\ last.amount = 1
    /\ weight_of(token_ids_with_vote_weights, last.token) = 2
    /\ Len(withdrawals) >= 1

(* =================== properties of the withdrawal callback ============= *)
Callback == "exchange_callback_post_withdraw"

\* C5: the compensating credit is applied at most once per withdrawal and
\* only when the withdrawal's transfer failed: a callback with a Successful
\* result changes no ledger state, a callback changes the ledger only as the
\* delivery of the Failed result of a withdrawal in flight, and the delivery
\* of its result ends the withdrawal's flight.
C5_CreditOnlyOnFailure ==
    [][/\ \A i \in DOMAIN withdrawals :
             CallbackDeliver(i, Successful) => UNCHANGED <<users, total_amount>>
       /\ (last'.op = Callback /\ <<users, total_amount>>' # <<users, total_amount>>)
             => \E i \in DOMAIN withdrawals : CallbackDeliver(i, Failed)
       /\ \A i \in DOMAIN withdrawals, r \in PromiseResults :
             CallbackDeliver(i, r) => Len(withdrawals') = Len(withdrawals) - 1
      ]_vars

\* The transfer of one unit succeeded; the callback ran and the debit stands.
C5_Witness ==
    /\ last.op = Callback
    /\ last.caller = CurrentAccountId
    /\ last.result = "ok"
    /\ last.amount = 1
    /\ issued = 1
    /\ withdrawals = <<>>
    /\ total_amount[last.token] = 0

\* C6: a callback invoked with zero results or with more than one halts on
\* the result-count assertion and applies no credit, whatever the results.
C6_CallbackArity ==
    [][\A c \in DirectCalls :
          (Len(c[2]) # 1 /\ CallbackDirect(c[1], "alice", "nft1", 1, c[2]))
          => /\ c[1] = CurrentAccountId
                   => last'.result = "ERR_CALLBACK_POST_WITHDRAW_INVALID"
             /\ last'.result # "credit"
             /\ CoreUnchanged]_vars

\* The contract called its callback outside a promise chain while a
\* withdrawal of the same account was in flight.
C6_Witness ==
    /\ last.op = Callback
    /\ last.caller = CurrentAccountId
    /\ last.result = "ERR_CALLBACK_POST_WITHDRAW_INVALID"
    /\ Len(withdrawals) = 1
    /\ withdrawals[1].amount = 1

\* C7: the callback is private: called by any account but the contract
\* itself it is rejected and changes no state.
C7_CallbackPrivate ==
    [][(last'.op = Callback /\ last'.caller # CurrentAccountId)
       => /\ last'.result = "ERR_PRIVATE"
          /\ CoreUnchanged]_vars

\* A user called the callback to credit herself while her withdrawal was in
\* flight, and was rejected.
C7_Witness ==
    /\ last.op = Callback
    /\ last.caller = "alice"
    /\ last.result = "ERR_PRIVATE"
    /\ Len(withdrawals) = 1
    /\ withdrawals[1].sender_id = "alice"

(* ======================= properties of the cooldown ==================== *)
NextAction(us, a) == us[a].next_action_timestamp

\* C8 (cooldown gate): a delegate or an undelegate at a time before the
\* sender's next_action_timestamp fails with CooldownActive, changes neither
\* the delegation table nor the timestamp nor any balance, and forwards
\* nothing to the governance contract; in particular every delegate of a
\* sender at a time before T + unstake_period, T the time of its last
\* successful undelegate, fails.
C8_CooldownGate ==
    [][/\ (/\ last'.op \in {"delegate", "undelegate"}
           /\ now < NextAction(users, last'.caller))
          => /\ last'.result = "CooldownActive"
             /\ last'.forwarded = NoForward
             /\ CoreUnchanged
       /\ (/\ last'.op = "delegate"
           /\ undelegated_at[last'.caller] # Never
           /\ now < undelegated_at[last'.caller] + unstake_period)
          => /\ last'.result = "CooldownActive"
             /\ last'.forwarded = NoForward
             /\ CoreUnchanged
      ]_vars

\* A delegate right after the sender's undelegate was rejected.
C8_Witness ==
    /\ last.op = "delegate"
    /\ last.result = "CooldownActive"
    /\ last.amount = 1
    /\ undelegated_at[last.caller] = now
    /\ unstake_period = 1

C11_WithdrawCooldown ==
    [][(/\ last'.op = "withdraw"
        /\ now < NextAction(users, last'.caller))
       => /\ last'.result \in {"CooldownActive", "InsufficientBalance"}
          /\ users[last'.caller].vote_amounts[last'.token] >= last'.amount
                => last'.result = "CooldownActive"
          /\ CoreUnchanged]_vars

\* An account that holds a unit asked for it during its cooldown and was
\* rejected.
C11_Witness ==
    /\ last.op = "withdraw"
    /\ last.result = "CooldownActive"
    /\ last.amount = 1
    /\ users[last.caller].vote_amounts[last.token] = 1
    /\ now < NextAction(users, last.caller)

\* The amount of a token an account has delegated, over all targets.
DelegatedOf(us, a, t) ==
    SumOver(Users, [d \in Users |-> us[a].delegated_amounts[<<t, d>>]])

\* C12: in every reachable state, for every account and token, the amount of
\* the token the account has delegated, summed over all targets, does not
\* exceed the account's staked amount of the token.
C12_DelegatedWithinStaked ==
    \A a \in Users, t \in TokenIds :
        DelegatedOf(users, a, t) <= users[a].vote_amounts[t]

\* Every delegation entry but the one of account s under key k is as before.
OtherDelegationsUnchanged(s, k) ==
    \A u \in Users, j \in DelegationKeys :
        <<u, j>> # <<s, k>> =>
            users'[u].delegated_amounts[j] = users[u].delegated_amounts[j]

\* C13: a successful delegate(sender, target, token, amount) raises the
\* sender's delegated amount for (token, target) by exactly amount, changes
\* no other delegation entry of any account, and creates on the governance
\* contract one delegate message for target that carries
\* amount * weight_of(token), which is 0 for an unregistered token.
C13_DelegateEffects ==
    [][(last'.op = "delegate" /\ last'.result = "ok") =>
          LET s == last'.caller
              d == last'.account
              t == last'.token
              a == last'.amount
          IN  /\ users'[s].delegated_amounts[<<t, d>>]
                    = users[s].delegated_amounts[<<t, d>>] + a
              /\ OtherDelegationsUnchanged(s, <<t, d>>)
              /\ last'.forwarded =
                    [method |-> "delegate", receiver_id |-> OwnerId,
                     account_id |-> d,
                     amount |-> a * weight_of(token_ids_with_vote_weights, t)]
              /\ token_ids_with_vote_weights[t] = NoWeight
                    => last'.forwarded.amount = 0]_vars

\* A unit of a token of weight 2 was delegated to another account and the
\* governance contract was sent 2 for that account.
C13_Witness ==
    /\ last.op = "delegate"
    /\ last.result = "ok"
    /\ last.caller = "alice"
    /\ last.account = "bob"
    /\ last.amount = 1
    /\ users["alice"].delegated_amounts[<<last.token, "bob">>] = 1
    /\ last.forwarded.method = "delegate"
    /\ last.forwarded.account_id = "bob"
    /\ last.forwarded.amount = 2

\* C14: a successful undelegate(sender, target, token, amount) sets the
\* sender's delegated amount for (token, target) to max(previous - amount, 0)
\* and changes no other entry; an undelegate never fails because amount
\* exceeds the delegated amount (it fails only under a running cooldown);
\* and it creates on the governance contract an undelegate message for
\* target that carries amount * weight_of(token) as the amount to subtract.
C14_UndelegateEffects ==
    [][/\ (last'.op = "undelegate" /\ last'.result = "ok") =>
             LET s == last'.caller
                 d == last'.account
                 t == last'.token
                 a == last'.amount
                 prev == users[s].delegated_amounts[<<t, d>>]
             IN  /\ users'[s].delegated_amounts[<<t, d>>]
                       = IF prev - a >= 0 THEN prev - a ELSE 0
                 /\ OtherDelegationsUnchanged(s, <<t, d>>)
                 /\ last'.forwarded =
                       [method |-> "undelegate", receiver_id |-> OwnerId,
                        account_id |-> d,
                        amount |-> a * weight_of(token_ids_with_vote_weights, t)]
       /\ (last'.op = "undelegate" /\ last'.result # "ok")
             => /\ last'.result = "CooldownActive"
                /\ now < NextAction(users, last'.caller)
      ]_vars

\* A unit of a token of weight 2 was undelegated from a target the sender had
\* delegated nothing to: the entry stays 0 and the governance contract is
\* told to subtract 2.
C14_Witness ==
    /\ last.op = "undelegate"
    /\ last.result = "ok"
    /\ last.amount = 1
    /\ ~last.after_delegate
    /\ DelegatedTotal(last.caller) = 0
    /\ undelegated_at[last.caller] = now
    /\ last.forwarded.method = "undelegate"
    /\ last.forwarded.amount = 2

(* ================= properties of deposits and the registry ============= *)
\* The calling account is a key of the registry.
Recognized(caller) ==
    /\ caller \in TokenIds
    /\ token_ids_with_vote_weights[caller] # NoWeight

\* Every staked amount but the one of account s for token t, and every
\* global total but the one of t, is as before.
OtherStakesUnchanged(s, t) ==
    /\ \A a \in Users, k \in TokenIds :
          <<a, k>> # <<s, t>> =>
              users'[a].vote_amounts[k] = users[a].vote_amounts[k]
    /\ \A k \in TokenIds \ {t} : total_amount'[k] = total_amount[k]

\* C15: a deposit notification whose calling account is no token of the
\* registry is rejected with InvalidToken; one from a registered token with
\* a non-empty message is rejected with InvalidMessage; a rejected
\* notification creates no account record and changes no balance and no
\* global total.  Any other notification raises the sender's staked amount
\* and the global total of the deposited token by exactly the deposited
\* amount, 1.
C15_DepositValidation ==
    [][last'.op = "nft_on_transfer" =>
          \A p \in {last'.caller}, s \in {last'.account}, t \in {last'.token},
             msg \in Messages :
          nft_on_transfer(p, s, t, msg) =>
              /\ ~Recognized(p) =>
                    /\ last'.result = "ERR_INVALID_TOKEN"
                    /\ CoreUnchanged
              /\ (Recognized(p) /\ msg # "") =>
                    /\ last'.result = "ERR_INVALID_MESSAGE"
                    /\ CoreUnchanged
              /\ (Recognized(p) /\ msg = "") =>
                    /\ last'.result = "ok"
                    /\ users'[s].vote_amounts[t] = users[s].vote_amounts[t] + 1
                    /\ total_amount'[t] = total_amount[t] + 1
                    /\ OtherStakesUnchanged(s, t)]_vars

\* A notification with a message was rejected while the sender had no
\* account record, and none was created.
C15_Witness ==
    /\ last.op = "nft_on_transfer"
    /\ last.result = "ERR_INVALID_MESSAGE"
    /\ Recognized(last.caller)
    /\ ~users[last.account].exists
    /\ nft_total_supply = 0

\* C16: adopt_new_nfts called by any account but the owner fails with
\* NotOwner (ERR_INVALID_APPROVER) and leaves the registry, and all other
\* state, unchanged; called by the owner it succeeds and sets the weight of
\* each supplied token to the supplied weight.
C16_RegisterOwnerOnly ==
    [][last'.op = "adopt_new_nfts" =>
          \A c \in {last'.caller}, m \in Registrations :
          adopt_new_nfts(c, m) =>
              /\ c # OwnerId =>
                    /\ last'.result = "ERR_INVALID_APPROVER"
                    /\ CoreUnchanged
              /\ c = OwnerId =>
                    /\ last'.result = "ok"
                    /\ \A t \in DOMAIN m :
                          /\ token_ids_with_vote_weights'[t] = m[t]
                          /\ weight_of(token_ids_with_vote_weights', t) = m[t]
      ]_vars

\* After the owner had registered NFT_6, another account tried to register
\* and was rejected.
C16_Witness ==
    /\ last.op = "adopt_new_nfts"
    /\ last.caller = "alice"
    /\ last.result = "ERR_INVALID_APPROVER"
    /\ token_ids_with_vote_weights["NFT_6"] = 2
    /\ token_ids_with_vote_weights["nft1"] = 2

\* C17: registration keeps the latest weight and never removes: a
\* successful registration leaves every supplied token with the supplied
\* weight and every other token with the weight it had, no other operation
\* changes the registry, and a registered token stays registered; so in
\* every state weight_of(token) is the weight of the most recent successful
\* registration of the token.
C17_LatestWeightKept ==
    [][/\ (last'.op = "adopt_new_nfts" /\ last'.result = "ok") =>
             \A m \in Registrations :
             adopt_new_nfts(OwnerId, m) =>
                 \A t \in TokenIds :
                     token_ids_with_vote_weights'[t] =
                         IF t \in DOMAIN m THEN m[t]
                         ELSE token_ids_with_vote_weights[t]
       /\ (last'.op # "adopt_new_nfts" \/ last'.result # "ok")
             => token_ids_with_vote_weights' = token_ids_with_vote_weights
       /\ \A t \in TokenIds :
             token_ids_with_vote_weights[t] # NoWeight
                 => token_ids_with_vote_weights'[t] # NoWeight
      ]_vars

\* nft1, registered with weight 2 at construction, was registered again with
\* weight 0 after NFT_6 had been registered: both keep their latest weights.
C17_Witness ==
    /\ last.op = "adopt_new_nfts"
    /\ last.result = "ok"
    /\ token_ids_with_vote_weights["nft1"] = 0
    /\ token_ids_with_vote_weights["NFT_6"] = 2

(* ========================= properties of the views ===================== *)
\* The voting power of what one account has staked.
StakedPower(a) ==
    SumOver(TokenIds,
        [t \in TokenIds |->
            users[a].vote_amounts[t]
                * (IF token_ids_with_vote_weights[t] = NoWeight THEN 0
                   ELSE token_ids_with_vote_weights[t])])

\* C18 (voting power consistency): in every reachable state
\* total_voting_power() is the sum over the tokens of the global total times
\* the registered weight, an unregistered token counting 0; it equals the sum
\* over the accounts of their staked amounts times the weights; and
\* nft_total_supply() is the sum over the accounts of nft_balance_of(account).
C18_VotingPowerConsistency ==
    /\ total_voting_power =
           total_amount["nft1"]
               * (IF token_ids_with_vote_weights["nft1"] = NoWeight THEN 0
                  ELSE token_ids_with_vote_weights["nft1"])
           + total_amount["NFT_6"]
               * (IF token_ids_with_vote_weights["NFT_6"] = NoWeight THEN 0
                  ELSE token_ids_with_vote_weights["NFT_6"])
    /\ total_voting_power = SumOver(Users, [a \in Users |-> StakedPower(a)])
    /\ nft_total_supply = SumOver(Users, [a \in Users |-> nft_balance_of(a)])

\* One account holds a unit of the registered token of weight 2, the other a
\* unit of a token the registry does not know: supply 2, voting power 2.
C18_Witness ==
    /\ token_ids_with_vote_weights["NFT_6"] = NoWeight
    /\ token_ids_with_vote_weights["nft1"] = 2
    /\ total_amount["NFT_6"] = 1
    /\ total_amount["nft1"] = 1
    /\ nft_balance_of("alice") = 1
    /\ nft_balance_of("bob") = 1
    /\ nft_total_supply = 2
    /\ total_voting_power = 2

\* C19 (frame): a delegate or an undelegate, successful or failed, changes no
\* account's staked amount, no global total, neither nft_total_supply() nor
\* total_voting_power(); a deposit, a withdraw and the withdrawal callback
\* change no delegation entry.
C19_Frame ==
    [][/\ last'.op \in {"delegate", "undelegate"} =>
             /\ \A a \in Users :
                   users'[a].vote_amounts = users[a].vote_amounts
             /\ total_amount' = total_amount
             /\ nft_total_supply_of(total_amount')
                   = nft_total_supply_of(total_amount)
             /\ total_voting_power_of(total_amount', token_ids_with_vote_weights')
                   = total_voting_power_of(total_amount, token_ids_with_vote_weights)
       /\ last'.op \in {"nft_on_transfer", "withdraw", Callback} =>
             \A a \in Users :
                 users'[a].delegated_amounts = users[a].delegated_amounts
      ]_vars

\* An account that holds a unit of weight 2 delegated it: the delegation is
\* recorded, the stake and the voting power are as before.
C19_Witness ==
    /\ last.op = "delegate"
    /\ last.result = "ok"
    /\ last.amount = 1
    /\ users[last.caller].vote_amounts[last.token] = 1
    /\ DelegatedOf(users, last.caller, last.token) = 1
    /\ total_amount[last.token] = 1
    /\ total_voting_power = 2

(* =================== properties of interleaved withdrawals ============= *)
RECURSIVE PendingAmount(_, _, _)
\* The amounts of the withdrawals of token t by account a in the sequence ws.
PendingAmount(ws, a, t) ==
    IF ws = <<>> THEN 0
    ELSE (IF Head(ws).sender_id = a /\ Head(ws).token_id = t
          THEN Head(ws).amount ELSE 0)
         + PendingAmount(Tail(ws), a, t)

\* C20 (no over-withdrawal under interleaving): in every reachable state,
\* also with several withdrawals of one account in flight, for every account
\* and token the amount deposited so far equals the staked amount plus the
\* amounts of the account's withdrawals of the token that are in flight or
\* completed with a Successful result; so the transfers requested and not
\* failed never exceed the deposits, and no staked amount is negative.
C20_NoOverWithdrawal ==
    \A a \in Users, t \in TokenIds :
        /\ deposited[a][t] =
               users[a].vote_amounts[t] + PendingAmount(withdrawals, a, t)
                   + finalized[a][t]
        /\ PendingAmount(withdrawals, a, t) + finalized[a][t] <= deposited[a][t]
        /\ users[a].vote_amounts[t] >= 0

\* Two withdrawals of one unit each by the same account are in flight at
\* once, for the two units it deposited, while the other account holds one.
C20_Witness ==
    /\ Len(withdrawals) = 2
    /\ \A i \in 1..2 :
          /\ withdrawals[i].sender_id = "alice"
          /\ withdrawals[i].token_id = "nft1"
          /\ withdrawals[i].amount = 1
    /\ deposited["alice"]["nft1"] = 2
    /\ users["alice"].vote_amounts["nft1"] = 0
    /\ users["bob"].vote_amounts["nft1"] = 1

(* =================== properties of the governance tally ================ *)
\* What the delegation table records for a target, weighted.
DelegatedPower(d) ==
    SumOver(Users,
        [s \in Users |->
            SumOver(TokenIds,
                [t \in TokenIds |->
                    users[s].delegated_amounts[<<t, d>>]
                        * weight_of(token_ids_with_vote_weights, t)])])

\* C21: in every reachable state, for every target account, the weighted
\* amounts forwarded by delegate less those forwarded by undelegate for the
\* target equal the sum over all senders and tokens of the delegated amount
\* recorded for (token, target) times weight_of(token).
C21_TallyAgrees ==
    \A d \in Users : tally[d] = DelegatedPower(d)

(* ===================== properties of the staked keys =================== *)
\* A token key carries stake: a global total or some account's amount.
Staked(t) ==
    \/ total_amount[t] # 0
    \/ \E a \in Users : users[a].vote_amounts[t] # 0

\* C22: in every reachable state, every token key with a non-zero global
\* total or a non-zero staked amount in some account is registered in the
\* vote-weight registry.
C22_OnlyRegisteredStaked ==
    \A t \in TokenIds :
        Staked(t) => token_ids_with_vote_weights[t] # NoWeight

(* ================ properties of the resolution of withdrawals ========== *)
\* The withdrawal issued as id is in flight with these fields.
InFlight(id) == withdrawals[PositionOf(id)]

\* One step takes withdrawal id from pending to its final state and changes
\* the ledger accordingly: nothing when finalized, the amount credited to the
\* account and to the total when rolled back; the withdrawal leaves the ones
\* in flight.
ResolvedOnce(id) ==
    (resolution[id] = "pending" /\ resolution'[id] # "pending") =>
        /\ resolution'[id] \in {"finalized", "rolled_back"}
        /\ Len(withdrawals') = Len(withdrawals) - 1
        /\ resolution'[id] = "finalized" =>
              users' = users /\ total_amount' = total_amount
        /\ resolution'[id] = "rolled_back" =>
              /\ users' = internal_deposit_users(users, InFlight(id).sender_id,
                              InFlight(id).token_id, InFlight(id).amount)
              /\ total_amount'[InFlight(id).token_id] =
                     total_amount[InFlight(id).token_id] + InFlight(id).amount

\* C23: with one outcome delivered for every transfer request, every
\* withdrawal that passed phase 1 eventually reaches exactly one of the two
\* final states, finalized (the debit stands) or rolled back (the amount is
\* credited back), keeps that state from then on, and none stays pending
\* forever.
C23_EventuallyResolved ==
    /\ \A id \in WithdrawalIds :
          (resolution[id] = "pending")
              ~> (resolution[id] \in {"finalized", "rolled_back"})
    /\ [][\A id \in WithdrawalIds :
             /\ ResolvedOnce(id)
             /\ resolution[id] \in {"finalized", "rolled_back"} =>
                   resolution'[id] = resolution[id]]_vars

\* Two withdrawals passed phase 1; one was rolled back, the other finalized,
\* and none is in flight.
C23_Witness ==
    /\ issued = 2
    /\ resolution[1] = "rolled_back"
    /\ resolution[2] = "finalized"
    /\ withdrawals = <<>>
====
